---- MODULE Spec2Model ----
(***************************************************************************)
(* Model of ratelimiter.py: the `limiter(rate, per)` decorator, its        *)
(* closure-captured `queue` of timestamps, and `_limit_reached`.           *)
(*                                                                         *)
(* Instants are integers (ticks of the time source), `per` is a number of  *)
(* ticks.  `queue` is the Python list: queue[1] is list index 0 and        *)
(* queue[Len(queue)] is the last element, the one `queue.pop()` removes    *)
(* and after which `queue.append` adds.                                    *)
(***************************************************************************)
EXTENDS Integers, Sequences, FiniteSets

VARIABLES
    rate,     \* limiter(rate, per): the captured `rate`
    per,      \* limiter(rate, per): the captured `per`
    queue,    \* wrap: the captured list `queue`
    clock,    \* the value _current_time() returns when read
    fcalls,   \* number of times the decorated function f has been invoked
    appends,  \* number of times queue.append has been executed
    log,      \* one record per completed non-overlapping call of a `wrapped`
    pc,       \* position of each concurrent caller inside `wrapped`
    ltime,    \* concurrent caller's local `time` (argument of _limit_reached)
    ln,       \* concurrent caller's remaining iterations of `for k in range`
    li,       \* concurrent caller's local `i`
    started,  \* number of concurrent calls started
    outcome,  \* how each concurrent caller's last call ended
    fout,     \* how f ended in the last sequential call: returned or raised
    heap,     \* the list objects created by wrap(), by identity
    ref,      \* for each decorated operation, the list its wrapped() captured
    lastop    \* the decorated operation called last

vars == <<rate, per, queue, clock, fcalls, appends, log,
          pc, ltime, ln, li, started, outcome, fout, heap, ref, lastop>>

concVars == <<pc, ltime, ln, li, started, outcome>>

twoVars == <<heap, ref, lastop>>

----------------------------------------------------------------------------
(* Bounds of the model.                                                    *)

MaxRate == 3
MaxPer == 2
MaxTime == 5
MaxCalls == 7
MaxDrift == 1
MaxStarted == 3
MaxConcTime == 2
MaxSkewTime == 3
MaxSkewCalls == 4
MaxTwoTime == 3
MaxTwoCalls == 4

\* limiter() accepts any rate and per: nothing in lines 47-70 rejects them.
Rates == -1 .. MaxRate
Pers == -1 .. MaxPer

Threads == {1, 2}

\* The operations the decorator is applied to, and the identities a list
\* object can have (0: no list yet).
Ops == {1, 2}
ListIds == 1 .. Cardinality(Ops)

----------------------------------------------------------------------------
(* _limit_reached (lines 20-44).                                           *)

\* line 40: `i >= time - period`, the test that keeps a popped entry.
IsLiveStrict(i, time, period) ==
    i > time - period

IsLive(i, time, period) ==
    i >= time - period

\* line 38: `i = queue.pop()` returns the LAST element of the list ...
Popped(q) ==
    q[Len(q)]

\* ... and leaves the list without it.
AfterPopKept(q) ==
    q

AfterPop(q) ==
    SubSeq(q, 1, Len(q) - 1)

\* line 41: `queue.insert(0, i)` puts i at the FRONT of the list.
InsertLast(q, i) ==
    Append(q, i)

Insert0(q, i) ==
    <<i>> \o q

\* lines 36-42: the loop runs at most n = len(queue) times; each iteration
\* pops the last element, and the first popped element that is live is
\* re-inserted at index 0 and ends the loop.
RECURSIVE PurgeLoop(_, _, _, _)
PurgeLoop(q, n, time, period) ==
    IF n = 0
    THEN q
    ELSE IF IsLive(Popped(q), time, period)
         THEN Insert0(AfterPop(q), Popped(q))
         ELSE PurgeLoop(AfterPop(q), n - 1, time, period)

\* The list after lines 36-42 have run on it.
PurgedOnce(q, time, period) ==
    PurgeLoop(q, IF Len(q) > 0 THEN 1 ELSE 0, time, period)

Purged(q, time, period) ==
    PurgeLoop(q, Len(q), time, period)

\* line 44: `return len(queue) >= rate`, on the list as the loop left it.
ReachedOffByOne(q, r) ==
    Len(q) > r

Reached(q, r) ==
    Len(q) >= r

\* _limit_reached's return value.
_limit_reached(q, time, r, period) ==
    Reached(Purged(q, time, period), r)

----------------------------------------------------------------------------
(* limiter.wrap.wrapped (lines 61-68), one sequential call.                *)

\* line 63-64 / 68: f is invoked only when the limit is not reached.
InvokesAlways(reached) ==
    1

Invokes(reached) ==
    IF reached THEN 0 ELSE 1

\* line 66: the list after `queue.append(t)`.
NotAppended(q, t) ==
    q

Appended(q, t) ==
    Append(q, t)

\* The record of one call: `time` is the instant read at line 63, `stamp`
\* the instant read at line 66 (equal to `time` for a rejected call, which
\* never reaches line 66), `before`/`after` the list at entry and exit.
Entry(res, time, stamp, before, after) ==
    [res |-> res, time |-> time, stamp |-> stamp,
     before |-> before, after |-> after]

\* line 68: `return f(*args, **kwargs)`; f returns or raises, and either
\* way wrapped() does nothing more to the list.
FOutcomes == {"returned", "raised"}

AfterFRolledBack(q, fr) ==
    IF fr = "raised" THEN AfterPop(q) ELSE q

AfterF(q, fr) ==
    q

\* One call of wrapped().  _current_time() is read at line 63 and again at
\* line 66; the time source may have moved by d in between.  fr is how f
\* ends when it is invoked.
Wrapped(d, fr) ==
    /\ Len(log) < MaxCalls
    /\ clock + d >= 0
    /\ clock + d <= MaxTime
    /\ LET time == clock
           reached == _limit_reached(queue, time, rate, per)
           q1 == Purged(queue, time, per)
           q2 == AfterF(Appended(q1, clock + d), fr)
       IN  IF reached
           THEN \* line 64: raise RateLimitException
                /\ d = 0
                /\ fr = "returned"
                /\ queue' = q1
                /\ clock' = clock
                /\ appends' = appends
                /\ fcalls' = fcalls + Invokes(reached)
                /\ fout' = "none"
                /\ log' = Append(log, Entry("rejected", time, time, queue, q1))
           ELSE \* lines 66-68
                /\ queue' = q2
                /\ clock' = clock + d
                /\ appends' = appends + 1
                /\ fcalls' = fcalls + Invokes(reached)
                /\ fout' = fr
                /\ log' = Append(log, Entry("admitted", time, clock + d, queue,
                                            q2))
    /\ UNCHANGED <<twoVars, rate, per, concVars>>

\* The time source moves forward between calls.
Tick ==
    /\ clock < MaxTime
    /\ clock' = clock + 1
    /\ UNCHANGED <<twoVars, fout, rate, per, queue, fcalls, appends, log, concVars>>

----------------------------------------------------------------------------
(* Sequential use: one caller, calls never overlap.                        *)

Init ==
    /\ rate \in Rates
    /\ per \in Pers
    /\ queue = <<>>
    /\ clock = 0
    /\ fcalls = 0
    /\ appends = 0
    /\ log = <<>>
    /\ pc = [t \in Threads |-> "idle"]
    /\ ltime = [t \in Threads |-> 0]
    /\ ln = [t \in Threads |-> 0]
    /\ li = [t \in Threads |-> 0]
    /\ started = 0
    /\ outcome = [t \in Threads |-> "none"]
    /\ fout = "none"
    /\ heap = [i \in ListIds |-> <<>>]
    /\ ref = [o \in Ops |-> 0]
    /\ lastop = 0

Next ==
    \/ \E d \in 0 .. MaxDrift : \E fr \in FOutcomes : Wrapped(d, fr)
    \/ Tick

Spec == Init /\ [][Next]_vars

----------------------------------------------------------------------------
(* Sequential use under a time source that may move backward: between      *)
(* calls it can be set to any instant (as the tests do through             *)
(* mock_time.return_value), and between the two reads of one call it can   *)
(* move either way.                                                        *)

\* The time source is set to the instant c.
SetClock(c) ==
    /\ c # clock
    /\ clock' = c
    /\ UNCHANGED <<twoVars, fout, rate, per, queue, fcalls, appends, log, concVars>>

\* One call of wrapped() under such a time source.
WrappedSkew(d, fr) ==
    /\ Len(log) < MaxSkewCalls
    /\ clock + d <= MaxSkewTime
    /\ Wrapped(d, fr)

NextSkew ==
    \/ \E c \in 0 .. MaxSkewTime : SetClock(c)
    \/ \E d \in (0 - MaxDrift) .. MaxDrift :
          \E fr \in FOutcomes : WrappedSkew(d, fr)

SpecSkew == Init /\ [][NextSkew]_vars

----------------------------------------------------------------------------
(* Several operations decorated by one limiter(rate, per): wrap() runs     *)
(* once per operation and each run executes `queue = []` (line 58).        *)

\* line 58: `queue = []` creates a new list object, distinct from every
\* list created before.
NewListShared(used) ==
    1

NewList(used) ==
    CHOOSE i \in ListIds \ used :
        \A k \in ListIds \ used : i <= k

\* The lists already captured by some wrapped().
UsedLists ==
    {ref[o] : o \in Ops} \ {0}

\* lines 56-69: wrap(f) for the operation o.
Wrap(o) ==
    /\ ref[o] = 0
    /\ ref' = [ref EXCEPT ![o] = NewList(UsedLists)]
    /\ heap' = [heap EXCEPT ![NewList(UsedLists)] = <<>>]
    /\ UNCHANGED <<lastop, fout, rate, per, queue, clock, fcalls, appends,
                   log, concVars>>

\* lines 61-68: one call of the wrapped operation o, on the list its
\* closure captured.  As in Wrapped, the time source may have moved by d
\* between lines 63 and 66, fr is how f ends when it is invoked, and the
\* call is counted and recorded.
WrappedOp(o, d, fr) ==
    /\ ref[o] # 0
    /\ Len(log) < MaxTwoCalls
    /\ clock + d <= MaxTwoTime
    /\ LET time == clock
           reached == _limit_reached(heap[ref[o]], time, rate, per)
           q1 == Purged(heap[ref[o]], time, per)
           q2 == AfterF(Appended(q1, clock + d), fr)
       IN  IF reached
           THEN \* line 64: raise RateLimitException
                /\ d = 0
                /\ fr = "returned"
                /\ heap' = [heap EXCEPT ![ref[o]] = q1]
                /\ clock' = clock
                /\ appends' = appends
                /\ fcalls' = fcalls + Invokes(reached)
                /\ fout' = "none"
                /\ log' = Append(log, Entry("rejected", time, time,
                                            heap[ref[o]], q1))
           ELSE \* lines 66-68
                /\ heap' = [heap EXCEPT ![ref[o]] = q2]
                /\ clock' = clock + d
                /\ appends' = appends + 1
                /\ fcalls' = fcalls + Invokes(reached)
                /\ fout' = fr
                /\ log' = Append(log, Entry("admitted", time, clock + d,
                                            heap[ref[o]], q2))
    /\ lastop' = o
    /\ UNCHANGED <<ref, rate, per, queue, concVars>>

\* The time source moves forward between calls.
TickTwo ==
    /\ clock < MaxTwoTime
    /\ clock' = clock + 1
    /\ UNCHANGED <<twoVars, fout, rate, per, queue, fcalls, appends, log,
                   concVars>>

NextTwo ==
    \/ \E o \in Ops : Wrap(o)
    \/ \E o \in Ops : \E d \in 0 .. MaxDrift :
          \E fr \in FOutcomes : WrappedOp(o, d, fr)
    \/ TickTwo

SpecTwo == Init /\ [][NextTwo]_vars

----------------------------------------------------------------------------
(* Concurrent use: several callers inside wrapped() at once.  The code     *)
(* takes no lock, so the callers interleave between any two operations on  *)
(* the shared list; each list operation (len, pop, insert, append) and     *)
(* each read of the time source is one step.                               *)

\* line 63: wrapped() is entered and _current_time() is read for the
\* `time` argument of _limit_reached.
CallStart(t) ==
    /\ pc[t] = "idle"
    /\ started < MaxStarted
    /\ started' = started + 1
    /\ ltime' = [ltime EXCEPT ![t] = clock]
    /\ pc' = [pc EXCEPT ![t] = "range"]
    /\ outcome' = [outcome EXCEPT ![t] = "none"]
    /\ UNCHANGED <<twoVars, fout, rate, per, queue, clock, fcalls, appends, log, ln, li>>

\* line 36: range(0, len(queue)) fixes the number of iterations.
RangeStep(t) ==
    /\ pc[t] = "range"
    /\ ln' = [ln EXCEPT ![t] = Len(queue)]
    /\ pc' = [pc EXCEPT ![t] = "loop"]
    /\ UNCHANGED <<twoVars, fout, rate, per, queue, clock, fcalls, appends, log,
                   ltime, li, started, outcome>>

\* line 36: the loop is exhausted.
LoopExit(t) ==
    /\ pc[t] = "loop"
    /\ ln[t] = 0
    /\ pc' = [pc EXCEPT ![t] = "return"]
    /\ UNCHANGED <<twoVars, fout, rate, per, queue, clock, fcalls, appends, log,
                   ltime, ln, li, started, outcome>>

\* lines 38-40: pop the last element and test it.
PopStep(t) ==
    /\ pc[t] = "loop"
    /\ ln[t] > 0
    /\ queue # <<>>
    /\ queue' = AfterPop(queue)
    /\ li' = [li EXCEPT ![t] = Popped(queue)]
    /\ ln' = [ln EXCEPT ![t] = ln[t] - 1]
    /\ pc' = [pc EXCEPT ![t] =
                IF IsLive(Popped(queue), ltime[t], per) THEN "insert" ELSE "loop"]
    /\ UNCHANGED <<twoVars, fout, rate, per, clock, fcalls, appends, log,
                   ltime, started, outcome>>

\* line 38: another caller emptied the list; pop() raises IndexError, which
\* leaves wrapped().
PopEmpty(t) ==
    /\ pc[t] = "loop"
    /\ ln[t] > 0
    /\ queue = <<>>
    /\ pc' = [pc EXCEPT ![t] = "idle"]
    /\ outcome' = [outcome EXCEPT ![t] = "IndexError"]
    /\ UNCHANGED <<twoVars, fout, rate, per, queue, clock, fcalls, appends, log,
                   ltime, ln, li, started>>

\* lines 41-42: re-insert the live element at index 0 and leave the loop.
InsertStep(t) ==
    /\ pc[t] = "insert"
    /\ queue' = Insert0(queue, li[t])
    /\ pc' = [pc EXCEPT ![t] = "return"]
    /\ UNCHANGED <<twoVars, fout, rate, per, clock, fcalls, appends, log,
                   ltime, ln, li, started, outcome>>

\* lines 44, 63-64: len(queue) >= rate is evaluated; when it holds
\* RateLimitException is raised.
ReturnStep(t) ==
    /\ pc[t] = "return"
    /\ IF Reached(queue, rate)
       THEN /\ pc' = [pc EXCEPT ![t] = "idle"]
            /\ outcome' = [outcome EXCEPT ![t] = "RateLimitException"]
       ELSE /\ pc' = [pc EXCEPT ![t] = "stamp"]
            /\ outcome' = outcome
    /\ UNCHANGED <<twoVars, fout, rate, per, queue, clock, fcalls, appends, log,
                   ltime, ln, li, started>>

\* line 66: _current_time() is read for the timestamp.
StampStep(t) ==
    /\ pc[t] = "stamp"
    /\ ltime' = [ltime EXCEPT ![t] = clock]
    /\ pc' = [pc EXCEPT ![t] = "append"]
    /\ UNCHANGED <<twoVars, fout, rate, per, queue, clock, fcalls, appends, log,
                   ln, li, started, outcome>>

\* line 66: queue.append.
AppendStep(t) ==
    /\ pc[t] = "append"
    /\ queue' = Appended(queue, ltime[t])
    /\ appends' = appends + 1
    /\ pc' = [pc EXCEPT ![t] = "call"]
    /\ UNCHANGED <<twoVars, fout, rate, per, clock, fcalls, log,
                   ltime, ln, li, started, outcome>>

\* line 68: f is invoked and wrapped() returns.
CallF(t) ==
    /\ pc[t] = "call"
    /\ fcalls' = fcalls + 1
    /\ pc' = [pc EXCEPT ![t] = "idle"]
    /\ outcome' = [outcome EXCEPT ![t] = "returned"]
    /\ UNCHANGED <<twoVars, fout, rate, per, queue, clock, appends, log,
                   ltime, ln, li, started>>

\* The time source moves forward while callers are in progress.
TickConc ==
    /\ clock < MaxConcTime
    /\ clock' = clock + 1
    /\ UNCHANGED <<twoVars, fout, rate, per, queue, fcalls, appends, log, concVars>>

NextConc ==
    \/ \E t \in Threads : CallStart(t)
    \/ \E t \in Threads : RangeStep(t)
    \/ \E t \in Threads : LoopExit(t)
    \/ \E t \in Threads : PopStep(t)
    \/ \E t \in Threads : PopEmpty(t)
    \/ \E t \in Threads : InsertStep(t)
    \/ \E t \in Threads : ReturnStep(t)
    \/ \E t \in Threads : StampStep(t)
    \/ \E t \in Threads : AppendStep(t)
    \/ \E t \in Threads : CallF(t)
    \/ TickConc

SpecConc == Init /\ [][NextConc]_vars

----------------------------------------------------------------------------
(* Vocabulary of the properties.                                           *)

\* A configuration the specification calls valid.
Valid ==
    rate >= 1 /\ per > 0

Calls ==
    1 .. Len(log)

IsAdmitted(j) ==
    log[j].res = "admitted"

IsRejected(j) ==
    log[j].res = "rejected"

\* The admitted calls before call j whose recorded timestamp is not older
\* than (instant of call j) - per.
LiveBefore(j) ==
    {i \in 1 .. (j - 1) : IsAdmitted(i) /\ log[i].stamp >= log[j].time - per}

\* The admitted calls before call j whose recorded timestamp lies in the
\* trailing window [now - per, now] of call j.
InWindowBefore(j) ==
    {i \in 1 .. (j - 1) :
        /\ IsAdmitted(i)
        /\ log[j].time - per <= log[i].stamp
        /\ log[i].stamp <= log[j].time}

\* Number of positions of the list q that hold the value t.
Count(q, t) ==
    Cardinality({k \in 1 .. Len(q) : q[k] = t})

\* Call j read the same instant at line 63 and line 66.
Frozen(j) ==
    log[j].stamp = log[j].time

\* Calls 1..j were all made with the clock fixed at one instant.
FrozenUpTo(j) ==
    \A i \in 1 .. j : Frozen(i) /\ log[i].time = log[1].time

----------------------------------------------------------------------------
(* C1..C10, sequential use (Spec).                                         *)

\* C1 - Rate cap: at every call, the previously admitted calls whose
\* timestamp lies in [now - per, now], plus the call itself if it is
\* admitted, never number more than rate.
C1_RateCap ==
    Valid =>
        \A j \in Calls :
            Cardinality(InWindowBefore(j)) + (IF IsAdmitted(j) THEN 1 ELSE 0)
                <= rate

\* A call was admitted into a window that already held rate - 1 admissions
\* made at distinct instants, after an older entry had expired.
C1_Witness ==
    /\ Valid
    /\ rate >= 2
    /\ \E j \in Calls :
        /\ IsAdmitted(j)
        /\ Cardinality(InWindowBefore(j)) = rate - 1
        /\ \E i \in 1 .. (j - 1) :
              IsAdmitted(i) /\ log[i].stamp < log[j].time - per
        /\ \E i \in InWindowBefore(j) : log[i].stamp < log[j].time

\* C2 - Exact admission decision: a call is admitted if and only if fewer
\* than rate of the previously admitted timestamps satisfy t >= now - per.
C2_ExactDecision ==
    Valid =>
        \A j \in Calls :
            IsAdmitted(j) <=> Cardinality(LiveBefore(j)) < rate

\* C3 - Burst at a frozen instant: on a fresh guarded operation with the
\* clock fixed, the first rate calls are admitted and call rate + 1 is
\* rejected.
C3_FrozenBurst ==
    Valid =>
        \A j \in Calls :
            (j <= rate + 1 /\ FrozenUpTo(j)) =>
                (IsAdmitted(j) <=> j <= rate)

\* rate + 1 calls were made at one instant and the last one was rejected.
C3_Witness ==
    /\ Valid
    /\ Len(log) >= rate + 1
    /\ FrozenUpTo(rate + 1)
    /\ IsRejected(rate + 1)
    /\ \A j \in 1 .. rate : IsAdmitted(j)

\* Call j is made after the limit was exhausted (rate admissions recorded
\* and a later call rejected) and finds every recorded timestamp older
\* than now - per.
Recovered(j) ==
    /\ \E i \in 1 .. (j - 1) : IsRejected(i) /\ Len(log[i].after) = rate
    /\ log[j].before # <<>>
    /\ \A k \in 1 .. Len(log[j].before) :
          log[j].before[k] < log[j].time - per

\* C4 - Window recovery: once every recorded timestamp is older than
\* now - per, the next rate calls made at that instant are all admitted.
C4_WindowRecovery ==
    Valid =>
        \A j \in Calls :
            Recovered(j) =>
                \A m \in j .. (j + rate - 1) :
                    (m \in Calls /\ \A i \in j .. m :
                        Frozen(i) /\ log[i].time = log[j].time)
                    => IsAdmitted(m)

\* The limit was exhausted, the window emptied, and rate further calls at
\* the new instant were admitted.
C4_Witness ==
    /\ Valid
    /\ \E j \in Calls :
        /\ Recovered(j)
        /\ j + rate - 1 \in Calls
        /\ \A i \in j .. (j + rate - 1) :
              Frozen(i) /\ log[i].time = log[j].time /\ IsAdmitted(i)

\* Call j finds exactly rate admissions recorded, all made at one
\* instant T, and is itself made at T + per.
AtBoundary(j) ==
    /\ Len(log[j].before) = rate
    /\ \A k \in 1 .. rate : log[j].before[k] = log[j].before[1]
    /\ log[j].time = log[j].before[1] + per

\* C5 as stated - Boundary recovery: after rate admissions all recorded at
\* T, a call made at exactly T + per is admitted.
C5_BoundaryAdmitted ==
    Valid =>
        \A j \in Calls : AtBoundary(j) => IsAdmitted(j)

\* C5 as amended - after rate admissions all recorded at T, a call made at
\* exactly T + per is rejected: the entries recorded at T are still in the
\* window.
C5_BoundaryRejected ==
    Valid =>
        \A j \in Calls : AtBoundary(j) => IsRejected(j)

\* A call was made at exactly T + per with rate entries recorded at T.
C5_Witness ==
    /\ Valid
    /\ \E j \in Calls : AtBoundary(j) /\ IsRejected(j)

\* C6 - Idempotence of rejection: once a call at instant now is rejected,
\* every further call made while the clock reads the same instant is
\* rejected too.
C6_RejectionIdempotent ==
    Valid =>
        \A j \in Calls : \A m \in Calls :
            (j < m /\ IsRejected(j) /\ log[m].time = log[j].time)
                => IsRejected(m)

\* C7 - Concurrent callers (SpecConc): purge + evaluate + append of one
\* call is atomic with respect to the others, so no two callers both
\* observe fewer than rate recorded timestamps and both append; the number
\* of recorded timestamps never exceeds rate.
C7_ConcurrentCap ==
    Valid => Len(queue) <= rate

\* C8 - Guarding contract: f is invoked once per admitted call and never
\* for a rejected one, so the invocations of f number the timestamps ever
\* appended.
C8_GuardingContract ==
    /\ fcalls = Cardinality({j \in Calls : IsAdmitted(j)})
    /\ fcalls = appends

\* Both an admitted and a rejected call have happened.
C8_Witness ==
    /\ fcalls >= 1
    /\ \E j \in Calls : IsRejected(j)
    /\ \E j \in Calls : IsAdmitted(j)

\* C9 - Construction validation: no guarded operation with a non-positive
\* rate or period ever processes a call.
C9_NoCallWhenInvalid ==
    (rate <= 0 \/ per <= 0) => Len(log) = 0

\* C10 - Rejection has no side effect beyond the purge: a rejected call
\* appends nothing, and every timestamp t >= now - per recorded before it
\* is still recorded after it.
C10_RejectionFrame ==
    \A j \in Calls :
        IsRejected(j) =>
            /\ Len(log[j].after) <= Len(log[j].before)
            /\ \A k \in 1 .. Len(log[j].after) :
                  Count(log[j].after, log[j].after[k])
                      <= Count(log[j].before, log[j].after[k])
            /\ \A k \in 1 .. Len(log[j].before) :
                  log[j].before[k] >= log[j].time - per =>
                      Count(log[j].after, log[j].before[k])
                          = Count(log[j].before, log[j].before[k])

\* A rejected call examined a list holding both an expired and a live
\* entry, and moved the live one to the front.
C10_Witness ==
    \E j \in Calls :
        /\ IsRejected(j)
        /\ log[j].after # log[j].before
        /\ \E k \in 1 .. Len(log[j].before) :
              log[j].before[k] < log[j].time - per
        /\ \E k \in 1 .. Len(log[j].before) :
              log[j].before[k] >= log[j].time - per

----------------------------------------------------------------------------
(* C11..C18.                                                               *)

\* The list as the purge of call j left it: `after` without the timestamp
\* line 66 appended when the call was admitted.
AfterPurge(j) ==
    IF IsAdmitted(j)
    THEN SubSeq(log[j].after, 1, Len(log[j].after) - 1)
    ELSE log[j].after

\* C11 - No stale entries survive a check: immediately after every
\* admission check made at instant now, every recorded timestamp t
\* satisfies t >= now - per.
C11_NoStaleEntries ==
    Valid =>
        \A j \in Calls :
            \A k \in 1 .. Len(log[j].after) :
                log[j].after[k] >= log[j].time - per

\* C13 - Ordering invariant: after every call the recorded timestamps are
\* held oldest-first (non-decreasing towards the end that is appended to),
\* and the entry the purge examines first is the oldest recorded one.
C13_OldestFirst ==
    Valid =>
        /\ \A k \in 1 .. (Len(queue) - 1) : queue[k] <= queue[k + 1]
        /\ queue # <<>> =>
              \A k \in 1 .. Len(queue) : Popped(queue) <= queue[k]

\* C14 - Inclusive lower edge: an entry t = now - per is never removed by
\* the purge of a check at now and counts in that check's comparison with
\* rate; only entries with t < now - per are ever removed.
C14_InclusiveLowerEdge ==
    \A j \in Calls :
        /\ \A k \in 1 .. Len(log[j].before) :
              LET v == log[j].before[k]
              IN  /\ v = log[j].time - per =>
                        Count(AfterPurge(j), v) = Count(log[j].before, v)
                  /\ Count(AfterPurge(j), v) < Count(log[j].before, v) =>
                        v < log[j].time - per
        /\ IsAdmitted(j) <=> Len(AfterPurge(j)) < rate

\* One check removed an expired entry and kept an entry with
\* t = now - per.
C14_Witness ==
    \E j \in Calls :
        /\ Len(AfterPurge(j)) < Len(log[j].before)
        /\ \E k \in 1 .. Len(log[j].before) :
              /\ log[j].before[k] = log[j].time - per
              /\ Count(AfterPurge(j), log[j].before[k]) >= 1

\* C15 - Single instant per call: the timestamp an admitted call appends
\* is the instant that was used for its purge and rate evaluation.
C15_SingleInstant ==
    \A j \in Calls :
        IsAdmitted(j) =>
            /\ log[j].stamp = log[j].time
            /\ log[j].after[Len(log[j].after)] = log[j].time

\* Number of entries of the list q that are live at instant now.
LiveCount(q, now) ==
    Cardinality({k \in 1 .. Len(q) : q[k] >= now - per})

\* C16 - Bounded delay of admission: if at the start of a call fewer than
\* rate recorded timestamps satisfy t >= now - per, then that call or one
\* of the next rate - 1 calls is admitted.
C16_BoundedDelay ==
    Valid =>
        \A j \in Calls :
            (/\ LiveCount(log[j].before, log[j].time) < rate
             /\ j + rate - 1 \in Calls)
            => \E m \in j .. (j + rate - 1) : IsAdmitted(m)

\* Starting with fewer than rate live entries, rate - 1 >= 1 calls in a row
\* were rejected and the following call was admitted.
C16_Witness ==
    /\ Valid
    /\ rate >= 2
    /\ \E j \in Calls :
        /\ LiveCount(log[j].before, log[j].time) < rate
        /\ j + rate - 1 \in Calls
        /\ \A m \in j .. (j + rate - 2) : IsRejected(m)
        /\ IsAdmitted(j + rate - 1)

\* C17 - Slot consumed before the protected operation runs: the timestamp
\* of an admitted call is recorded and is not removed if f fails, so a call
\* whose f raises counts toward the rate like one whose f returns.
C17_SlotKeptOnFailure ==
    fout # "none" =>
        /\ IsAdmitted(Len(log))
        /\ queue = log[Len(log)].after
        /\ Len(queue) =
              Len(Purged(log[Len(log)].before, log[Len(log)].time, per)) + 1
        /\ Popped(queue) = log[Len(log)].stamp

\* f raised in a call that was admitted into a non-empty window, and the
\* call's timestamp is recorded.
C17_Witness ==
    /\ Valid
    /\ fout = "raised"
    /\ Len(queue) >= 2
    /\ Popped(queue) = log[Len(log)].stamp

\* C12 - Bounded record (SpecSkew): for rate >= 1, after every call the
\* number of recorded timestamps is at most rate, whatever the clock does,
\* and a call is rejected whenever rate timestamps remain after its purge.
C12_BoundedRecord ==
    rate >= 1 =>
        /\ Len(queue) <= rate
        /\ \A j \in Calls :
              /\ Len(log[j].after) <= rate
              /\ Len(AfterPurge(j)) >= rate => IsRejected(j)

\* The clock moved backward below a recorded timestamp and the call made
\* then was rejected on a full record.
C12_Witness ==
    /\ rate >= 1
    /\ \E j \in Calls :
        /\ IsRejected(j)
        /\ Len(log[j].after) = rate
        /\ \E k \in 1 .. Len(log[j].before) :
              log[j].before[k] > log[j].time

\* C18 - Independent limiters (SpecTwo): every step that is not a call of
\* the guarded operation p leaves p's recorded timestamps unchanged, and
\* with them the decision p's next call would get at any instant.
C18_Independent ==
    [][\A p \in Ops :
          (ref[p] # 0 /\ lastop' # p) =>
              /\ ref'[p] = ref[p]
              /\ heap'[ref[p]] = heap[ref[p]]
              /\ \A t \in 0 .. MaxTwoTime :
                    _limit_reached(heap'[ref'[p]], t, rate, per)
                        = _limit_reached(heap[ref[p]], t, rate, per)]_vars

\* One guarded operation has exhausted its limit and was called last while
\* the other one still has room.
C18_Witness ==
    /\ Valid
    /\ \E o \in Ops : \E p \in Ops :
        /\ o # p
        /\ ref[o] # 0
        /\ ref[p] # 0
        /\ lastop = o
        /\ Len(heap[ref[o]]) = rate
        /\ Len(heap[ref[p]]) \in 1 .. (rate - 1)

====
